---- MODULE Spec2Model ----
(***************************************************************************)
(* QingLongClient (custom_components/qinglong-assistant/__init__.py): the  *)
(* token lifecycle manager (_refresh_token_if_needed) and the task client  *)
(* (async_get_tasks, async_run_task), run by asyncio coroutines of one     *)
(* event loop.  One action is the code a coroutine runs between two        *)
(* suspension points (an await of the HTTP transport); nothing else can    *)
(* interleave inside it.  Times are whole seconds, as int(time.time()).    *)
(***************************************************************************)
EXTENDS Integers, FiniteSets, Sequences, TLC

\* ------------------------------------------------------------ constants
TOKEN_REFRESH_THRESHOLD == 86400
TOKEN_EXPIRY_BUFFER == 3600
MIN_REFRESH_INTERVAL == 300
DEFAULT_EXPIRY == 2592000
HTTP_TIMEOUT == 10
POLL_INTERVAL == 30

\* ------------------------------------------------------------ bounds
\* The clock value at construction of the client.
StartTime == 1000000
\* The number of clock advances explored.
MaxTicks == 2
\* The largest timestamp time.localtime accepts (the platform's limit,
\* scaled to fit the model's integers).
MaxLocaltime == 100000000

\* Two coroutines call into the client concurrently.  "token_sensor" is
\* QingLongTokenSensor.async_update, which awaits _refresh_token_if_needed
\* (ensureFresh).  "task_entity" is whichever of the other entities is
\* running: QingLongTasksSensor.async_update and
\* QingLongTaskSelect.async_update await async_get_tasks (listTasks),
\* QingLongTaskSelect.async_select_option and QingLongRerunButton.async_press
\* await async_run_task (runTask).
Callers == {"token_sensor", "task_entity"}

OpsOf(c) ==
    IF c = "token_sensor" THEN {"ensureFresh"} ELSE {"listTasks", "runTask"}

\* Token values: the one stored at setup and the one the panel returns.
InitialToken == "tok0"

\* Mutant: the entry carries an expiry a month ahead.
StoredExpiryFarFuture == StartTime + DEFAULT_EXPIRY

\* entry.data.get(CONF_TOKEN_EXPIRES, 0) (line 257): the configuration flow
\* stores a token and no expiry, so the client is constructed with 0.
StoredExpiry == 0
Tokens == {"tok1"}

VARIABLES
    now,                \* time.time(), whole seconds
    ticks,              \* number of clock advances so far
    token,              \* self._token
    token_expires,      \* self._token_expires
    refresh_lock,       \* self._refresh_lock
    last_refresh_time,  \* self._last_refresh_time
    session,            \* self._session: "none", "open" or "closed"
    open_sessions,      \* number of ClientSession objects created and not
                        \*   closed
    torn_down,          \* async_unload_entry has closed the client
    unloaded,           \* async_unload_entry has returned
    pc,                 \* per caller: "idle", "auth_wait", "task_wait"
    op,                 \* per caller: the client method it is running
    current_time,       \* per caller: the local current_time of
                        \*   _refresh_token_if_needed while it refreshes (the
                        \*   token sensor's update hook reads the same clock
                        \*   value on entry), 0 otherwise
    request_start,      \* per caller: when its pending request was issued
    last_update,        \* QingLongTokenSensor's self._last_update
    request_token,      \* per caller: the token in the Authorization header
                        \*   of its pending task request, "" when it has
                        \*   none
    rejected,           \* history: the token a task request carried when it
                        \*   was answered with HTTP 401, "" once a later call
                        \*   has entered the client or a refresh succeeded
    called,             \* history: a caller has entered the client
    last_attempt,       \* history: time of the last token-exchange request,
                        \*   0 initially and after a 401 reset
    ev,                 \* history: what the last step did
    tasks,              \* hass.data[DOMAIN][entry_id]["tasks"]: the cached
                        \*   snapshot the entities share
    sensor_attrs,       \* QingLongTasksSensor: native value and attributes
    options,            \* QingLongTaskSelect._options
    task_mapping,       \* QingLongTaskSelect._task_mapping
    current_option,     \* QingLongTaskSelect._current_option, "" for None
    last_result,        \* history: what the last async_get_tasks awaited by
                        \*   an entity returned
    selected_task,      \* hass.data[DOMAIN][entry_id]["selected_task"]
    sel,                \* QingLongTaskSelect.async_select_option: where the
                        \*   coroutine is, and its locals option and task_id
    btn,                \* QingLongRerunButton.async_press: where the
                        \*   coroutine is, and its locals option and task_id
    last_press_time     \* QingLongRerunButton._last_press_time

vars == <<now, ticks, token, token_expires, refresh_lock, last_refresh_time,
          session, open_sessions, torn_down, unloaded, pc, op, current_time,
          request_start, last_update, request_token, rejected, called,
          last_attempt, ev, tasks, sensor_attrs, options, task_mapping,
          current_option, last_result, selected_task, sel, btn,
          last_press_time>>

\* The state of the entities, which the client's own steps leave alone.
entity_vars == <<tasks, sensor_attrs, options, task_mapping, current_option,
                 last_result, selected_task, sel, btn, last_press_time>>

\* The part of it that running a task reads and writes.
run_vars == <<selected_task, sel, btn, last_press_time>>

\* The state of the client and of the callers' positions in it.
client_vars == <<now, ticks, token, token_expires, refresh_lock,
                 last_refresh_time, session, open_sessions, torn_down,
                 unloaded, pc, op, current_time, request_start, last_update,
                 request_token, rejected, called, last_attempt>>

\* ------------------------------------------------------------ responses
\* What the remote (or the transport) answers to one request.
\*   kind: "http" (a response arrived), "neterror" (aiohttp.ClientError),
\*         "timeout" (asyncio.TimeoutError from async_timeout.timeout(10))
\*   body: "json" (response.json() is an object of the expected shape) or
\*         "malformed" (response.json() raises, or the value has no .get)
\*   token: data.token, "" when absent or empty
\*   exp_kind: "absent" (no expiration, null or 0), "number", "string"
Resp(k, s, b, c, t, ek, e) ==
    [kind |-> k, status |-> s, body |-> b, code |-> c, token |-> t,
     exp_kind |-> ek, expiration |-> e]

HugeExpiration == MaxLocaltime + 1

FailedResponses ==
    { Resp("neterror", 0, "none", 0, "", "absent", 0),
      Resp("timeout", 0, "none", 0, "", "absent", 0),
      Resp("http", 500, "json", 500, "", "absent", 0),
      Resp("http", 200, "malformed", 0, "", "absent", 0),
      Resp("http", 200, "json", 500, "", "absent", 0) }

Unauthorized == Resp("http", 401, "json", 401, "", "absent", 0)

\* Token-exchange answers at server time t.
AuthResponses(t) ==
    FailedResponses
    \cup { Resp("http", 200, "json", 200, "", "absent", 0) }
    \cup { Resp("http", 200, "json", 200, tk, "absent", 0) : tk \in Tokens }
    \cup { Resp("http", 200, "json", 200, tk, "string", 0) : tk \in Tokens }
    \cup { Resp("http", 200, "json", 200, tk, "number", e) :
             tk \in Tokens,
             e \in {t - 1, t, t + TOKEN_EXPIRY_BUFFER, t + DEFAULT_EXPIRY,
                    HugeExpiration} }

\* Answers to the task requests (GET /open/crons, PUT /open/crons/run).
TaskResponses ==
    FailedResponses
    \cup { Unauthorized, Resp("http", 200, "json", 200, "", "absent", 0) }

\* ------------------------------------------------------------ the client
\* Mutant: every call makes a session of its own.
CreatesSessionAlways(s) == TRUE

\* Line 56: `if self._session is None or self._session.closed`.
CreatesSession(s) == s \in {"none", "closed"}

\* _get_session (lines 54-58): a new session unless one is open.
GetSession(s) == IF CreatesSession(s) THEN "open" ELSE s

\* The sessions open after _get_session: line 57 adds one when it runs.
SessionsAfterGet(s, n) == IF CreatesSession(s) THEN n + 1 ELSE n

\* async_close (lines 244-247): closes the session if one is open.
CloseSession(s) == IF s = "open" THEN "closed" ELSE s

SessionsAfterClose(s, n) == IF s = "open" THEN n - 1 ELSE n

\* Mutant: the remaining time is compared with the wrong constant.
IsFreshWrongConstant(expires, ct) == expires - ct > DEFAULT_EXPIRY

\* Line 65: the token is still valid for more than the threshold.
IsFresh(expires, ct) == expires - ct > TOKEN_REFRESH_THRESHOLD

\* Mutant: the in-progress flag is not consulted.
LockHeldIgnored(lock) == FALSE

\* Line 69: a refresh is already in progress.
LockHeld(lock) == lock

\* Mutant: the interval is taken in minutes where the clock counts seconds.
TooRecentInMinutes(ct, lrt) == ct - lrt < MIN_REFRESH_INTERVAL \div 60

\* Line 74: the last recorded refresh is less than 5 minutes old.
TooRecent(ct, lrt) == ct - lrt < MIN_REFRESH_INTERVAL

\* Which path _refresh_token_if_needed takes before its first await.
Branch(expires, lock, lrt, ct) ==
    IF IsFresh(expires, ct) THEN "fresh"
    ELSE IF LockHeld(lock) THEN "locked"
    ELSE IF TooRecent(ct, lrt) THEN "backoff"
    ELSE "refresh"


\* Mutant: the token field is not checked.
TokenMissingUnchecked(tk) == FALSE

\* `if not new_token` (line 104): no token field, null or the empty string.
TokenMissing(tk) == tk = ""

\* `if expiration and expiration > current_time` (line 110), for a number.
ExpirationValid(resp, ct) ==
    resp.exp_kind = "number" /\ resp.expiration # 0 /\ resp.expiration > ct

\* Mutant: a numeric expiration is stored without the `> current_time` test.
NewExpiryUnchecked(resp, ct) ==
    IF resp.exp_kind = "number" /\ resp.expiration # 0 THEN resp.expiration
    ELSE ct + DEFAULT_EXPIRY

\* Lines 110-117: the expiry the refresh stores.  expiration is a JSON
\* integer of seconds, which int() returns unchanged.
NewExpiry(resp, ct) ==
    IF ExpirationValid(resp, ct) THEN resp.expiration
    ELSE ct + DEFAULT_EXPIRY

\* time.localtime(self._token_expires) in the log call of lines 112-114
\* raises OverflowError/OSError beyond the platform's range.
LocaltimeRaises(t) == t > MaxLocaltime

RaisePaths == {"raise_request", "raise_body", "raise_compare", "raise_log",
               "raise_refresh"}

\* Where the try body of _refresh_token_if_needed (lines 80-124) ends for
\* a given answer: a `return False`, an exception, or the `return True`.
RefreshPath(resp, ct) ==
    IF resp.kind # "http" THEN "raise_request"
    ELSE IF resp.status # 200 THEN "return_status"
    ELSE IF resp.body # "json" THEN "raise_body"
    ELSE IF resp.code # 200 THEN "return_code"
    ELSE IF TokenMissing(resp.token) THEN "return_no_token"
    ELSE IF resp.exp_kind = "string" THEN "raise_compare"
    ELSE IF ExpirationValid(resp, ct) /\ LocaltimeRaises(NewExpiry(resp, ct))
         THEN "raise_log"
    ELSE "success"

\* Line 111 / 117 has run on these paths, lines 120-121 only on success.
ExpiryAssigned(path) == path \in {"raise_log", "success"}
TokenAssigned(path) == path = "success"

\* Mutant: the handler catches transport errors and timeouts only.
RefreshCaughtTransportOnly(path) == path = "raise_request"

\* `except Exception` (line 126) catches every exception of the try body.
RefreshCaught(path) == path \in RaisePaths

\* Mutant: no finally; the flag is cleared at the end of the try body and
\* in the handler, which the early `return False` statements skip.
ClearLockSkippedByReturn(path, lock) ==
    IF path \in {"return_status", "return_code", "return_no_token"} THEN lock
    ELSE FALSE

\* Mutant: no finally; the flag is cleared only where the try body ends
\* with the `return True`.
ClearLockOnSuccessOnly(path, lock) == IF path = "success" THEN FALSE ELSE lock

\* `finally: self._refresh_lock = False` (lines 129-130), on every path.
ClearLock(path, lock) == FALSE

\* Mutant: the application code of the body is not checked.
TaskPathNoCodeCheck(resp) ==
    IF resp.kind # "http" THEN "raise_request"
    ELSE IF resp.status = 401 THEN "return_401"
    ELSE IF resp.status # 200 THEN "return_status"
    ELSE IF resp.body # "json" THEN "raise_body"
    ELSE "success"

\* The try body of async_run_task / async_get_tasks after the request
\* (lines 150-167 / 222-238).
TaskPath(resp) ==
    IF resp.kind # "http" THEN "raise_request"
    ELSE IF resp.status = 401 THEN "return_401"
    ELSE IF resp.status # 200 THEN "return_status"
    ELSE IF resp.body # "json" THEN "raise_body"
    ELSE IF resp.code # 200 THEN "return_code"
    ELSE "success"

\* Mutant: the task request is sent only when the refresh check returned
\* True.
ProceedOnlyIfFresh(ret) == ret = "true"

\* Lines 136 / 211: the value _refresh_token_if_needed returns is dropped,
\* so the method goes on to its request whatever it was.
ProceedAfterRefresh(ret) == TRUE

\* `except Exception` (lines 169 / 240).
TaskCaught(path) == path \in RaisePaths

\* What the method returns: async_run_task a bool, async_get_tasks the
\* parsed body or {}.
TaskResult(o, path) ==
    IF o = "runTask" THEN (IF path = "success" THEN "true" ELSE "false")
    ELSE (IF path = "success" THEN "data" ELSE "empty")

\* Mutant: every failed task request resets the backoff clock.
LastRefreshResetOnAnyFailure(path, lrt) == IF path # "success" THEN 0 ELSE lrt

\* Mutant: a 401 leaves the backoff clock as it is.
LastRefreshKept(path, lrt) == lrt

\* Lines 154 / 226: a 401 resets the backoff clock.
LastRefreshAfterTask(path, lrt) == IF path = "return_401" THEN 0 ELSE lrt

\* Mutant: every attempt stamps the last refresh time.
LastRefreshOnAnyAttempt(path, ct, lrt) == ct

\* self._last_refresh_time = current_time (line 121) runs on the success
\* path only; `except` and `finally` (lines 126-130) do not touch it.
LastRefreshAfterAuth(path, ct, lrt) ==
    IF TokenAssigned(path) THEN ct ELSE lrt

\* ------------------------------------------------------------ history
\* What a step did: the path the code took, what _refresh_token_if_needed
\* returned if it returned in this step (ret), what the client method
\* returned to its caller if it returned in this step (result; "true" /
\* "false" from async_run_task, "data" / "empty" from async_get_tasks),
\* whether an exception reached the caller, and the request it issued.
Ev(k, p, ret, res, raised, issued) ==
    [kind |-> k, path |-> p, ret |-> ret, result |-> res, raised |-> raised,
     issued |-> issued]

InFlight(c) == pc[c] \in {"auth_wait", "task_wait"}

\* ------------------------------------------------------------ task data
\* What async_get_tasks returns: the parsed body of a successful answer,
\* passed through unchanged (line 238), or {} (lines 227, 231, 236, 242).
\*   shape: "list"   - {code: 200, data: [task, ...]}
\*          "nested" - {code: 200, data: {data: [task, ...], total: n}}
\*          "other"  - {code: 200} with data absent or of another type
\*          "empty"  - {}
\* A task is a JSON object with an id, a command and isDisabled: "0", "1"
\* for the numbers 0 and 1, "absent" for a missing field or null.
Body(sh, ts) == [shape |-> sh, tasks |-> ts]

EmptyBody == Body("empty", <<>>)

TaskIds == {"1", "2", "3"}
Commands == {"task foo.js", "bar.js"}
DisabledValues == {"0", "1", "absent"}

TaskRecords == [id : TaskIds, command : Commands, isDisabled : DisabledValues]

\* Lists of at most n tasks of the set ts whose ids are distinct.
TaskLists(ts, n) ==
    UNION { { l \in [1..k -> ts] :
                \A i, j \in 1..k : i # j => l[i].id # l[j].id } : k \in 0..n }

Bodies(ts, n) ==
    { Body(sh, l) : sh \in {"list", "nested"}, l \in TaskLists(ts, n) }
    \cup { Body("other", <<>>), EmptyBody }

\* `if new_tasks_data:` (select.py line 205): {} is false, a body is true.
Truthy(body) == body.shape # "empty"

\* _extract_tasks_list (sensor.py lines 162-173) and the same steps in
\* _update_options (select.py lines 94-103).
ExtractTasksList(body) ==
    IF body.shape \in {"list", "nested"} THEN body.tasks ELSE <<>>

\* `if task.get("isDisabled")` (sensor.py line 193): 0, a missing field and
\* null are false, 1 is true.
SensorDisabled(task) == task.isDisabled = "1"

\* `task.get("isDisabled") == 0` (select.py line 106).
SelectEnabled(task) == task.isDisabled = "0"

\* The two counters of sensor.py lines 192-196.
DisabledCount(l) == Cardinality({i \in 1..Len(l) : SensorDisabled(l[i])})

EnabledCount(l) == Cardinality({i \in 1..Len(l) : ~SensorDisabled(l[i])})

NoAttrs ==
    [built |-> FALSE, total |-> 0, commands |-> <<>>, enabled |-> 0,
     disabled |-> 0]

\* _get_tasks_attributes (sensor.py lines 175-198) with the native value.
TasksAttributes(l) ==
    [built |-> TRUE,
     total |-> Len(l),
     commands |-> [i \in 1..Len(l) |-> l[i].command],
     enabled |-> EnabledCount(l),
     disabled |-> DisabledCount(l)]

\* select.py lines 111-114: the command without its "task " prefix.
ScriptName(command) ==
    CASE command = "task foo.js" -> "foo.js"
      [] command = "task bar.js" -> "bar.js"
      [] OTHER -> command

\* The order sorted() puts the script names in (select.py line 124).
Before(a, b) ==
    LET rank(x) == CASE x = "bar.js" -> 1 [] x = "foo.js" -> 2 [] OTHER -> 3
    IN  rank(a) < rank(b)

EnabledTasks(l) == SelectSeq(l, SelectEnabled)

\* _update_options (select.py lines 79-130): the options, the mapping
\* (a later task of the same script name overwrites an earlier one) and
\* the current option.
OptionsOf(l) ==
    SortSeq([i \in 1..Len(EnabledTasks(l)) |->
                ScriptName(EnabledTasks(l)[i].command)], Before)

MappingOf(l) ==
    LET en == EnabledTasks(l)
        names == {ScriptName(en[i].command) : i \in 1..Len(en)}
        last(nm) == CHOOSE i \in 1..Len(en) :
                      /\ ScriptName(en[i].command) = nm
                      /\ \A j \in 1..Len(en) :
                           ScriptName(en[j].command) = nm => j <= i
    IN  [nm \in names |->
           [task_id |-> en[last(nm)].id, command |-> en[last(nm)].command]]

DefaultOption(cur, opts) ==
    IF cur = "" /\ Len(opts) > 0 THEN opts[1] ELSE cur

\* ------------------------------------------------------------ init
\* QingLongClient.__init__ (lines 38-52) as async_setup_entry calls it
\* (lines 256-262): the token of the config entry, and token_expires 0,
\* the default of entry.data.get(CONF_TOKEN_EXPIRES, 0), since the config
\* flow stores a token and no expiry.  The entities start with
\* _last_update = 0.
ClientInit ==
    /\ now = StartTime
    /\ ticks = 0
    /\ token = InitialToken
    /\ token_expires = StoredExpiry
    /\ refresh_lock = FALSE
    /\ last_refresh_time = 0
    /\ session = "none"
    /\ open_sessions = 0
    /\ torn_down = FALSE
    /\ unloaded = FALSE
    /\ pc = [c \in Callers |-> "idle"]
    /\ op = [c \in Callers |-> "none"]
    /\ current_time = [c \in Callers |-> 0]
    /\ request_start = [c \in Callers |-> 0]
    /\ last_update = 0
    /\ request_token = [c \in Callers |-> ""]
    /\ rejected = ""
    /\ called = FALSE
    /\ last_attempt = 0
    /\ ev = Ev("init", "none", "none", "none", FALSE, "none")

\* The entities before their platforms are set up; async_setup_entry starts
\* from tasks_data = {} (line 265).
EntitiesNotBuilt ==
    /\ sensor_attrs = NoAttrs
    /\ options = <<>>
    /\ task_mapping = <<>>
    /\ current_option = ""
    /\ last_result = EmptyBody

\* "selected_task": None (line 284), and a coroutine that is not running:
\* QingLongRerunButton.__init__ sets _last_press_time = 0 (button.py
\* line 44).
NoSelection ==
    [set |-> FALSE, option |-> "", task_id |-> "", task_name |-> "",
     run_id |-> "", status |-> ""]

NotRunning == [pc |-> "idle", option |-> "", task_id |-> ""]

NothingSelected ==
    /\ selected_task = NoSelection
    /\ sel = NotRunning
    /\ btn = NotRunning
    /\ last_press_time = 0

Init ==
    /\ ClientInit
    /\ tasks = EmptyBody
    /\ EntitiesNotBuilt
    /\ NothingSelected

\* ------------------------------------------------------------ actions
\* The clock advances.  A pending request is answered or abandoned within
\* async_timeout.timeout(10), so time cannot pass beyond that.  The steps
\* explored: half the timeout, the backoff interval, and the time left
\* until the held token comes within the refresh threshold.
TickSteps ==
    {HTTP_TIMEOUT \div 2, MIN_REFRESH_INTERVAL}
    \cup {d \in {token_expires - TOKEN_REFRESH_THRESHOLD - now} : d > 0}

Tick(d) ==
    /\ UNCHANGED entity_vars
    /\ ticks < MaxTicks
    /\ \A c \in Callers :
         InFlight(c) => now + d <= request_start[c] + HTTP_TIMEOUT
    /\ now' = now + d
    /\ ticks' = ticks + 1
    /\ ev' = Ev("tick", "none", "none", "none", FALSE, "none")
    /\ UNCHANGED <<token, token_expires, refresh_lock, last_refresh_time,
                   session, open_sessions, torn_down, unloaded, pc, op,
                   current_time, request_start, last_update, request_token,
                   rejected, called, last_attempt>>

\* QingLongTokenSensor.async_update returns early within 30 s of its last
\* update (sensor.py lines 117-118).  The task entities are several, each
\* with its own guard or none, so their calls can follow one another at
\* any time.
Polled(o) == o = "ensureFresh"

MayCall(o) == Polled(o) => now - last_update >= POLL_INTERVAL

\* Mutant: the header is built from the token read before the refresh.
HeaderTokenReadEarly(before, after) == before

\* The Authorization header is built from self._token after the awaited
\* _refresh_token_if_needed has returned (lines 141-144 / 216-219).
HeaderToken(before, after) == after

\* Issue the task request of async_get_tasks / async_run_task
\* (lines 138-150 / 213-222) and suspend.
SendTask(c, o) ==
    /\ request_token' =
         [request_token EXCEPT ![c] = HeaderToken(token, token')]
    /\ session' = GetSession(session)
    /\ open_sessions' = SessionsAfterGet(session, open_sessions)
    /\ pc' = [pc EXCEPT ![c] = "task_wait"]
    /\ op' = [op EXCEPT ![c] = o]
    /\ request_start' = [request_start EXCEPT ![c] = now]

\* The client method returns to the entity; the token sensor's update hook
\* then stores the time it read on entry (sensor.py line 123) unless an
\* exception ended it.
Finish(c, raised) ==
    /\ pc' = [pc EXCEPT ![c] = "idle"]
    /\ op' = [op EXCEPT ![c] = "none"]
    /\ request_start' = [request_start EXCEPT ![c] = 0]
    /\ current_time' = [current_time EXCEPT ![c] = 0]
    /\ request_token' = [request_token EXCEPT ![c] = ""]
    /\ last_update' = IF Polled(op[c]) /\ ~raised
                      THEN current_time[c]
                      ELSE last_update

\* A caller enters _refresh_token_if_needed, directly or through
\* async_get_tasks / async_run_task, and runs up to its first await:
\* lines 62-92, and lines 136-150 / 211-222 when the refresh returned early.
Call(c, o) ==
    /\ UNCHANGED entity_vars
    /\ pc[c] = "idle"
    /\ o \in OpsOf(c)
    /\ MayCall(o)
    /\ UNCHANGED <<now, ticks, token, token_expires, last_refresh_time,
                   torn_down, unloaded>>
    /\ rejected' = ""
    /\ called' = TRUE
    /\ LET ct == now
           b == Branch(token_expires, refresh_lock, last_refresh_time, ct)
           ret == IF b = "fresh" THEN "true" ELSE "false"
       IN  IF b = "refresh"
           THEN /\ refresh_lock' = TRUE
                /\ session' = GetSession(session)
                /\ open_sessions' = SessionsAfterGet(session, open_sessions)
                /\ pc' = [pc EXCEPT ![c] = "auth_wait"]
                /\ op' = [op EXCEPT ![c] = o]
                /\ current_time' = [current_time EXCEPT ![c] = ct]
                /\ request_start' = [request_start EXCEPT ![c] = now]
                /\ last_attempt' = ct
                /\ ev' = Ev("call", b, "none", "none", FALSE, "auth")
                /\ UNCHANGED <<last_update, request_token>>
           ELSE /\ IF o = "ensureFresh"
                   THEN /\ last_update' = ct
                        /\ ev' = Ev("call", b, ret, "none", FALSE, "none")
                        /\ UNCHANGED <<session, open_sessions, pc, op,
                                       request_start, current_time,
                                       request_token>>
                   ELSE IF ProceedAfterRefresh(ret)
                   THEN /\ SendTask(c, o)
                        /\ ev' = Ev("call", b, ret, "none", FALSE, "task")
                        /\ UNCHANGED <<current_time, last_update>>
                   ELSE /\ ev' = Ev("call", b, ret, TaskResult(o, "none"),
                                    FALSE, "none")
                        /\ UNCHANGED <<session, open_sessions, pc, op,
                                       request_start, current_time,
                                       last_update, request_token>>
                /\ UNCHANGED <<refresh_lock, last_attempt>>

\* The token exchange is answered (or fails, or times out) and the
\* coroutine runs from line 92 to the end of _refresh_token_if_needed; inside
\* async_get_tasks / async_run_task it goes on to issue the task request.
AuthResponse(c, resp) ==
    /\ UNCHANGED entity_vars
    /\ pc[c] = "auth_wait"
    /\ resp \in AuthResponses(now)
    /\ resp.kind = "timeout" => now = request_start[c] + HTTP_TIMEOUT
    /\ LET ct == current_time[c]
           path == RefreshPath(resp, ct)
           raised == path \in RaisePaths /\ ~RefreshCaught(path)
           ret == IF raised THEN "none"
                  ELSE IF path = "success" THEN "true" ELSE "false"
       IN  /\ token_expires' = IF ExpiryAssigned(path) THEN NewExpiry(resp, ct)
                               ELSE token_expires
           /\ token' = IF TokenAssigned(path) THEN resp.token ELSE token
           /\ last_refresh_time' =
                LastRefreshAfterAuth(path, ct, last_refresh_time)
           /\ refresh_lock' = ClearLock(path, refresh_lock)
           /\ rejected' = IF TokenAssigned(path) THEN "" ELSE rejected
           /\ IF op[c] = "ensureFresh"
              THEN /\ Finish(c, raised)
                   /\ ev' = Ev("auth_response", path, ret, "none", raised,
                               "none")
                   /\ UNCHANGED <<session, open_sessions>>
              ELSE IF raised
              THEN /\ Finish(c, ~TaskCaught("raise_refresh"))
                   /\ ev' = Ev("auth_response", path, ret,
                               TaskResult(op[c], "raise_refresh"),
                               ~TaskCaught("raise_refresh"), "none")
                   /\ UNCHANGED <<session, open_sessions>>
              ELSE IF ProceedAfterRefresh(ret)
              THEN /\ SendTask(c, op[c])
                   /\ ev' = Ev("auth_response", path, ret, "none", FALSE,
                               "task")
                   /\ UNCHANGED <<current_time, last_update>>
              ELSE /\ Finish(c, FALSE)
                   /\ ev' = Ev("auth_response", path, ret,
                               TaskResult(op[c], "none"), FALSE, "none")
                   /\ UNCHANGED <<session, open_sessions>>
    /\ UNCHANGED <<now, ticks, called, last_attempt, torn_down, unloaded>>

\* The task request is answered (or fails, or times out) and the coroutine
\* runs to the end of async_run_task / async_get_tasks.
TaskResponse(c, resp) ==
    /\ UNCHANGED entity_vars
    /\ pc[c] = "task_wait"
    /\ resp \in TaskResponses
    /\ resp.kind = "timeout" => now = request_start[c] + HTTP_TIMEOUT
    /\ LET path == TaskPath(resp)
           raised == path \in RaisePaths /\ ~TaskCaught(path)
       IN  /\ last_refresh_time' = LastRefreshAfterTask(path, last_refresh_time)
           /\ last_attempt' = IF path = "return_401" THEN 0 ELSE last_attempt
           /\ rejected' = IF path = "return_401" THEN request_token[c]
                          ELSE rejected
           /\ Finish(c, raised)
           /\ ev' = Ev("task_response", path, "none",
                       IF raised THEN "none" ELSE TaskResult(op[c], path),
                       raised, "none")
    /\ UNCHANGED <<now, ticks, token, token_expires, refresh_lock, session,
                   open_sessions, torn_down, unloaded, called>>

Next ==
    \/ \E d \in TickSteps : Tick(d)
    \/ \E c \in Callers : \E o \in OpsOf(c) : Call(c, o)
    \/ \E c \in Callers : \E resp \in AuthResponses(now) : AuthResponse(c, resp)
    \/ \E c \in Callers : \E resp \in TaskResponses : TaskResponse(c, resp)

Spec == Init /\ [][Next]_vars

\* ------------------------------------------------------------ progress
\* What the event loop and the transport guarantee.  Every request is
\* awaited inside async_timeout.timeout(10) (lines 91, 149, 221), so each
\* pending await ends, by an answer, an error or the timeout, and the
\* coroutine is resumed.  Home Assistant polls the entities (should_poll),
\* so an idle caller calls again.  Nothing obliges the clock to reach a
\* given value within the ticks explored; the clock advances explored here
\* are those that bring a pending request to its timeout.
LiveTickSteps == {HTTP_TIMEOUT}

NextLive ==
    \/ \E d \in LiveTickSteps : Tick(d)
    \/ \E c \in Callers : \E o \in OpsOf(c) : Call(c, o)
    \/ \E c \in Callers : \E resp \in AuthResponses(now) : AuthResponse(c, resp)
    \/ \E c \in Callers : \E resp \in TaskResponses : TaskResponse(c, resp)

RequestEnds(c) ==
    \/ \E resp \in AuthResponses(now) : AuthResponse(c, resp)
    \/ \E resp \in TaskResponses : TaskResponse(c, resp)

Polls(c) == \E o \in OpsOf(c) : Call(c, o)

Fairness ==
    /\ \A c \in Callers : WF_vars(RequestEnds(c))
    /\ \A c \in Callers : WF_vars(Polls(c))

SpecLive == Init /\ [][NextLive]_vars /\ Fairness

\* ------------------------------------------------------------ token info
\* get_token_info (lines 173-205): the fields the token sensor shows.
\* expires_display and expires_at are formatted strings; expires_at is
\* time.strftime(..., time.localtime(self._token_expires)) when the expiry
\* is positive (line 201), which raises beyond the platform's range.
TokenInfoPath(expires) ==
    IF expires > 0 /\ LocaltimeRaises(expires) THEN "raise_format"
    ELSE "success"

TokenInfo(tk, expires, lrt, t) ==
    [token |-> tk,
     token_expires |-> expires,
     expires_in |-> expires - t,
     is_valid |-> expires - t > TOKEN_EXPIRY_BUFFER,
     needs_refresh |-> expires - t <= TOKEN_REFRESH_THRESHOLD,
     last_refresh_time |-> lrt]

\* A synchronous call of get_token_info (QingLongTokenSensor._update_state,
\* sensor.py line 77): it runs to its end between two steps of the
\* coroutines.  The step records the two flags it returned.
GetTokenInfo ==
    /\ UNCHANGED entity_vars
    /\ LET path == TokenInfoPath(token_expires)
           info == TokenInfo(token, token_expires, last_refresh_time, now)
       IN  ev' = IF path = "success"
                 THEN Ev("token_info", path,
                         IF info.needs_refresh THEN "needs_refresh"
                         ELSE "no_refresh",
                         IF info.is_valid THEN "valid" ELSE "invalid",
                         FALSE, "none")
                 ELSE Ev("token_info", path, "none", "none", TRUE, "none")
    /\ UNCHANGED <<now, ticks, token, token_expires, refresh_lock,
                   last_refresh_time, session, open_sessions, torn_down,
                   unloaded, pc, op, current_time, request_start,
                   last_update, request_token, rejected, called,
                   last_attempt>>

NextInfo == Next \/ GetTokenInfo

SpecInfo == Init /\ [][NextInfo]_vars

\* ------------------------------------------------------------ teardown
\* async_unload_entry (lines 293-303) awaits client.async_close() once and
\* then unloads the platforms; the entities hold the client themselves, so
\* calls already running go on and an update may still start until the
\* platforms are unloaded.
Close ==
    /\ UNCHANGED entity_vars
    /\ ~torn_down
    /\ torn_down' = TRUE
    /\ session' = CloseSession(session)
    /\ open_sessions' = SessionsAfterClose(session, open_sessions)
    /\ ev' = Ev("close", "none", "none", "none", FALSE, "none")
    /\ UNCHANGED <<now, ticks, token, token_expires, refresh_lock,
                   last_refresh_time, pc, op, current_time, request_start,
                   last_update, request_token, rejected, called,
                   last_attempt, unloaded>>

NextTeardown == Next \/ Close

SpecTeardown == Init /\ [][NextTeardown]_vars

\* async_unload_entry returns: the platforms are unloaded (line 302), so
\* Home Assistant polls the entities no longer and no new call enters the
\* client.  A coroutine already inside the client is not cancelled by the
\* unload and runs on.
Unload ==
    /\ torn_down /\ ~unloaded
    /\ unloaded' = TRUE
    /\ ev' = Ev("unload", "none", "none", "none", FALSE, "none")
    /\ UNCHANGED entity_vars
    /\ UNCHANGED <<now, ticks, token, token_expires, refresh_lock,
                   last_refresh_time, session, open_sessions, torn_down, pc,
                   op, current_time, request_start, last_update,
                   request_token, rejected, called, last_attempt>>

\* An entity's update hook or service call enters the client; it can do so
\* until the platforms are unloaded.
EntityCall(c, o) == ~unloaded /\ Call(c, o)

NextUnload ==
    \/ \E d \in TickSteps : Tick(d)
    \/ \E c \in Callers : \E o \in OpsOf(c) : EntityCall(c, o)
    \/ \E c \in Callers : \E resp \in AuthResponses(now) :
         AuthResponse(c, resp)
    \/ \E c \in Callers : \E resp \in TaskResponses : TaskResponse(c, resp)
    \/ Close
    \/ Unload

SpecUnload == Init /\ [][NextUnload]_vars

\* ------------------------------------------------------------ entities
\* The bound on the length of a task list.
MaxTasks == 2

\* async_setup_entry stores what its async_get_tasks returned (lines
\* 265-283) and sets the platforms up: sensor.py builds QingLongTasksSensor
\* from it, select.py builds QingLongTaskSelect, whose async_added_to_hass
\* runs _update_options.
InitTasks ==
    /\ ClientInit
    /\ tasks \in Bodies(TaskRecords, MaxTasks)
    /\ EntitiesNotBuilt
    /\ NothingSelected

\* QingLongTasksSensor.__init__ (sensor.py lines 134-152).
SensorInit ==
    /\ ~sensor_attrs.built
    /\ sensor_attrs' = TasksAttributes(ExtractTasksList(tasks))
    /\ ev' = Ev("sensor_init", "none", "none", "none", FALSE, "none")
    /\ UNCHANGED client_vars
    /\ UNCHANGED <<tasks, options, task_mapping, current_option,
                   last_result>>
    /\ UNCHANGED run_vars

\* QingLongTaskSelect.async_added_to_hass (select.py lines 73-77).
SelectAdded ==
    /\ ev.kind # "select_added"
    /\ options' = OptionsOf(ExtractTasksList(tasks))
    /\ task_mapping' = MappingOf(ExtractTasksList(tasks))
    /\ current_option' = DefaultOption(current_option, options')
    /\ ev' = Ev("select_added", "none", "none", "none", FALSE, "none")
    /\ UNCHANGED client_vars
    /\ UNCHANGED <<tasks, sensor_attrs, last_result>>
    /\ UNCHANGED run_vars

NextTasks == SensorInit \/ SelectAdded

SpecTasks == InitTasks /\ [][NextTasks]_vars

\* ------------------------------------------------------------ polls
\* The tasks the panel holds while the entities poll it.
PollTasks ==
    { [id |-> "1", command |-> "task foo.js", isDisabled |-> "0"],
      [id |-> "2", command |-> "bar.js", isDisabled |-> "1"],
      [id |-> "3", command |-> "bar.js", isDisabled |-> "0"] }

\* What an async_get_tasks awaited by an entity can return.
PollResults == Bodies(PollTasks, MaxTasks)

\* Mutant: the entries of the new result are added to the cached ones.
MergeSnapshot(old, new) == Body(new.shape, old.tasks \o new.tasks)

\* hass.data[DOMAIN][entry_id]["tasks"] = new_tasks_data (sensor.py line
\* 235, select.py line 207).
StoreSnapshot(old, new) == new

\* Mutant: the current option survives the update.
KeepOption(cur, opts) == cur

\* select.py lines 213-219: a current option that is no longer offered is
\* replaced by the first option, or by None.
ResetOption(cur, opts) ==
    IF cur # "" /\ \A k \in 1..Len(opts) : opts[k] # cur
    THEN (IF Len(opts) > 0 THEN opts[1] ELSE "")
    ELSE cur

\* The platforms are set up from the result async_setup_entry obtained.
InitPoll ==
    /\ ClientInit
    /\ tasks \in PollResults
    /\ last_result = tasks
    /\ sensor_attrs = TasksAttributes(ExtractTasksList(tasks))
    /\ options = OptionsOf(ExtractTasksList(tasks))
    /\ task_mapping = MappingOf(ExtractTasksList(tasks))
    /\ current_option = DefaultOption("", options)
    /\ NothingSelected

\* QingLongTasksSensor.async_update from the point where its
\* async_get_tasks has returned r (sensor.py lines 225-237): no await
\* follows, so it runs to its end in one step.
SensorUpdate(r) ==
    /\ last_result' = r
    /\ sensor_attrs' = TasksAttributes(ExtractTasksList(r))
    /\ tasks' = StoreSnapshot(tasks, r)
    /\ ev' = Ev("sensor_update", "none", "none", "none", FALSE, "none")
    /\ UNCHANGED client_vars
    /\ UNCHANGED <<options, task_mapping, current_option>>
    /\ UNCHANGED run_vars

\* QingLongTaskSelect.async_update from the point where its
\* async_get_tasks has returned r (select.py lines 202-222).
SelectUpdate(r) ==
    /\ last_result' = r
    /\ IF Truthy(r)
       THEN /\ tasks' = StoreSnapshot(tasks, r)
            /\ options' = OptionsOf(ExtractTasksList(tasks'))
            /\ task_mapping' = MappingOf(ExtractTasksList(tasks'))
            /\ current_option' =
                 ResetOption(DefaultOption(current_option, options'),
                             options')
       ELSE UNCHANGED <<tasks, options, task_mapping, current_option>>
    /\ ev' = Ev("select_update", "none", "none", "none", FALSE, "none")
    /\ UNCHANGED client_vars
    /\ UNCHANGED sensor_attrs
    /\ UNCHANGED run_vars

NextPoll ==
    \/ \E r \in PollResults : SensorUpdate(r)
    \/ \E r \in PollResults : SelectUpdate(r)

SpecPoll == InitPoll /\ [][NextPoll]_vars

\* ------------------------------------------------------------ runs
\* Selecting an option and pressing the rerun button.  Each awaits
\* client.async_run_task(task_id) once; what the client does inside that
\* call is the subject of Spec, and here the call is its issue (ev.issued
\* = "runTask", with the coroutine's task_id as argument) and, in a later
\* step, the boolean it returns.  One async_select_option and one
\* async_press coroutine are followed at a time.
PRESS_INTERVAL == 2

\* The options a user may ask for: the script names of the panel's tasks
\* and one that no task has.
OptionNames == {"foo.js", "bar.js", "gone.js"}

\* What the select entity's async_get_tasks can return while tasks are
\* run: both scripts enabled, bar.js disabled, foo.js gone, and the empty
\* result of a failed call.
RunLists ==
    { l \in TaskLists(PollTasks, 2) :
        \/ Len(l) = 2 /\ l[1].id = "1"
        \/ Len(l) = 1 /\ l[1].id = "3" }

RunResults == {Body("list", l) : l \in RunLists} \cup {EmptyBody}

InitRun ==
    /\ InitPoll
    /\ tasks \in RunResults

\* The clock advances explored around the button's 2-second guard.
PressTickSteps == {PRESS_INTERVAL \div 2}

Listed(o, opts) == \E k \in 1..Len(opts) : opts[k] = o

\* async_select_option up to its await (select.py lines 144-167): an option
\* that is not offered raises ValueError; otherwise the current option is
\* set and, the option being mapped, async_run_task is called with the
\* mapped task id.
SelectOption(o) ==
    /\ sel.pc = "idle"
    /\ IF ~Listed(o, options)
       THEN /\ ev' = Ev("select_option", "raise_invalid", "none", "none",
                        TRUE, "none")
            /\ UNCHANGED <<current_option, sel>>
       ELSE /\ current_option' = o
            /\ IF o \in DOMAIN task_mapping
               THEN /\ sel' = [pc |-> "wait", option |-> o,
                               task_id |-> task_mapping[o].task_id]
                    /\ ev' = Ev("select_option", "run", "none", "none",
                                FALSE, "runTask")
               ELSE /\ ev' = Ev("select_option", "unmapped", "none",
                                "none", FALSE, "none")
                    /\ UNCHANGED sel
    /\ UNCHANGED client_vars
    /\ UNCHANGED <<tasks, sensor_attrs, options, task_mapping, last_result,
                   selected_task, btn, last_press_time>>

\* The record async_select_option stores (select.py lines 181-186).
SelectedAfterSelect(old, option, task_id, success) ==
    [set |-> TRUE, option |-> option, task_id |-> task_id,
     task_name |-> option, run_id |-> task_id,
     status |-> IF success THEN "success" ELSE "failed"]

\* async_select_option from the return of async_run_task to its end
\* (select.py lines 169-189).
SelectDone(success) ==
    /\ sel.pc = "wait"
    /\ selected_task' =
         SelectedAfterSelect(selected_task, sel.option, sel.task_id, success)
    /\ sel' = NotRunning
    /\ ev' = Ev("select_done", "none", "none",
                IF success THEN "true" ELSE "false", FALSE, "none")
    /\ UNCHANGED client_vars
    /\ UNCHANGED <<tasks, sensor_attrs, options, task_mapping,
                   current_option, last_result, btn, last_press_time>>

\* Mutant: the guard lets every press through.
ThrottledNever(ct, lpt) == FALSE

\* button.py line 64.
Throttled(ct, lpt) == ct - lpt < PRESS_INTERVAL

\* button.py line 74: `not selected_task or "task_id" not in selected_task`;
\* every record stored has a task_id.
NoTaskSelected(st) == ~st.set

\* async_press up to its await (button.py lines 61-93).
Press ==
    /\ btn.pc = "idle"
    /\ LET ct == now
       IN  IF Throttled(ct, last_press_time)
           THEN /\ ev' = Ev("press", "throttled", "none", "none", FALSE,
                            "none")
                /\ UNCHANGED <<btn, last_press_time>>
           ELSE /\ last_press_time' = ct
                /\ IF NoTaskSelected(selected_task)
                   THEN /\ ev' = Ev("press", "no_task", "none", "none",
                                    FALSE, "none")
                        /\ UNCHANGED btn
                   ELSE /\ btn' = [pc |-> "wait",
                                   option |-> selected_task.option,
                                   task_id |-> selected_task.task_id]
                        /\ ev' = Ev("press", "run", "none", "none", FALSE,
                                    "runTask")
    /\ UNCHANGED client_vars
    /\ UNCHANGED <<tasks, sensor_attrs, options, task_mapping,
                   current_option, last_result, selected_task, sel>>

\* What a successful press leaves in the record (button.py lines 103-104):
\* its run_status is replaced, its option and task_id stay as they are.
SelectedAfterPress(old, option, task_id) ==
    [old EXCEPT !.task_name = option, !.run_id = task_id,
                !.status = "success"]

\* async_press from the return of async_run_task to its end (button.py
\* lines 95-119).
PressDone(success) ==
    /\ btn.pc = "wait"
    /\ selected_task' =
         IF success
         THEN SelectedAfterPress(selected_task, btn.option, btn.task_id)
         ELSE selected_task
    /\ btn' = NotRunning
    /\ ev' = Ev("press_done", "none", "none",
                IF success THEN "true" ELSE "false", FALSE, "none")
    /\ UNCHANGED client_vars
    /\ UNCHANGED <<tasks, sensor_attrs, options, task_mapping,
                   current_option, last_result, sel, last_press_time>>

NextRun ==
    \/ \E d \in PressTickSteps : Tick(d)
    \/ \E r \in RunResults : SelectUpdate(r)
    \/ \E o \in OptionNames : SelectOption(o)
    \/ \E success \in BOOLEAN : SelectDone(success)
    \/ Press
    \/ \E success \in BOOLEAN : PressDone(success)

SpecRun == InitRun /\ [][NextRun]_vars

\* ------------------------------------------------------------ claims
AuthInFlight == {c \in Callers : pc[c] = "auth_wait"}
TaskInFlight == {c \in Callers : pc[c] = "task_wait"}

Remaining == token_expires - now

\* C1: at most one token-exchange request is in flight at any time, and a
\* call that needs a refresh while one is in flight returns False at once
\* without issuing a token-exchange request.
C1_SingleFlight ==
    /\ [](Cardinality(AuthInFlight) <= 1)
    /\ [][(/\ ev'.kind = "call"
           /\ ~(Remaining > TOKEN_REFRESH_THRESHOLD)
           /\ AuthInFlight # {})
          => (/\ ev'.ret = "false"
              /\ ev'.issued # "auth"
              /\ AuthInFlight' = AuthInFlight)]_vars

C1_Witness ==
    /\ ev.kind = "call" /\ ev.path = "locked" /\ ev.ret = "false"
    /\ Cardinality(AuthInFlight) = 1

\* C2: when more than 24 h remain, _refresh_token_if_needed returns True,
\* issues no token exchange and changes neither token, expiry, in-progress
\* flag nor last refresh time.
C2_FreshShortCircuit ==
    [][(ev'.kind = "call" /\ Remaining > TOKEN_REFRESH_THRESHOLD)
       => (/\ ev'.ret = "true"
           /\ ev'.issued # "auth"
           /\ UNCHANGED <<token, token_expires, refresh_lock,
                          last_refresh_time>>)]_vars

C2_Witness ==
    /\ ev.kind = "call" /\ ev.path = "fresh" /\ ev.ret = "true"
    /\ Remaining > TOKEN_REFRESH_THRESHOLD

\* C3: with 24 h or less remaining, a call made less than 5 minutes after
\* the last refresh attempt (successful or failed, and not reset by a 401
\* since) returns False without a token-exchange request.
C3_BackoffAfterAnyAttempt ==
    [][(/\ ev'.kind = "call"
        /\ ~(Remaining > TOKEN_REFRESH_THRESHOLD)
        /\ last_attempt # 0
        /\ now - last_attempt < MIN_REFRESH_INTERVAL)
       => (ev'.ret = "false" /\ ev'.issued # "auth")]_vars

\* C4: async_run_task returns True exactly when the answer has HTTP status
\* 200 and application code 200, False otherwise; a 401 sets the last
\* refresh time to 0 and no other answer changes it.
RunTaskOk(resp) ==
    /\ resp.kind = "http" /\ resp.status = 200
    /\ resp.body = "json" /\ resp.code = 200

C4_RunTaskResult ==
    [][\A c \in TaskInFlight : \A resp \in TaskResponses :
         (ev'.kind = "task_response" /\ TaskResponse(c, resp)
          /\ op[c] = "runTask")
         => (/\ ev'.result = (IF RunTaskOk(resp) THEN "true" ELSE "false")
             /\ last_refresh_time' =
                  (IF resp.kind = "http" /\ resp.status = 401 THEN 0
                   ELSE last_refresh_time))]_vars

C4_Witness ==
    /\ ev.kind = "task_response" /\ ev.path = "return_401"
    /\ ev.result = "false"
    /\ token = "tok1" /\ last_refresh_time = 0

\* C5: no exception reaches the caller: _refresh_token_if_needed returns a
\* bool, async_run_task returns a bool, async_get_tasks returns the body or
\* the empty result, and the empty result whenever the request failed.
C5_NeverRaises ==
    [][/\ ~ev'.raised
       /\ (ev'.kind = "call" /\ ev'.issued # "auth")
          => ev'.ret \in {"true", "false"}
       /\ ev'.kind = "auth_response" => ev'.ret \in {"true", "false"}
       /\ \A c \in TaskInFlight : \A resp \in TaskResponses :
            (ev'.kind = "task_response" /\ TaskResponse(c, resp))
            => (/\ op[c] = "runTask" => ev'.result \in {"true", "false"}
                /\ op[c] = "listTasks" =>
                     ev'.result = (IF RunTaskOk(resp) THEN "data"
                                   ELSE "empty"))]_vars

C5_Witness ==
    /\ ev.kind = "auth_response" /\ ev.path = "raise_body"
    /\ ev.ret = "false" /\ ~ev.raised

\* C6: a token-exchange answer with a non-200 HTTP status, a non-200
\* application code or no token makes the refresh return False and leaves
\* token and expiry as they were.
RefreshRejected(resp) ==
    /\ resp.kind = "http"
    /\ \/ resp.status # 200
       \/ resp.body = "json" /\ resp.code # 200
       \/ resp.body = "json" /\ resp.token = ""

C6_FailedRefreshKeepsToken ==
    [][\A c \in AuthInFlight : \A resp \in AuthResponses(now) :
         (ev'.kind = "auth_response" /\ RefreshRejected(resp)
          /\ AuthResponse(c, resp))
         => (/\ ev'.ret = "false"
             /\ token' = token
             /\ token_expires' = token_expires)]_vars

C6_Witness ==
    /\ ev.kind = "auth_response" /\ ev.path = "return_no_token"
    /\ ev.ret = "false"

\* C7: the pair (token, expiry) changes only in a refresh that returns
\* True, so it is always the pair set at construction or the complete pair
\* stored by one successful refresh, never a new expiry with an old token.
C7_NeverPartial ==
    [][(token' # token \/ token_expires' # token_expires)
       => (ev'.kind = "auth_response" /\ ev'.ret = "true")]_vars

\* C8: a refresh that returns True stores the answer's expiration when it
\* is present and later than the clock reading of the attempt, and that
\* reading + 30 days otherwise; it stores the answer's token and sets the
\* last refresh time to the reading of the attempt.
C8_SuccessfulRefresh ==
    [][\A c \in AuthInFlight : \A resp \in AuthResponses(now) :
         (ev'.kind = "auth_response" /\ ev'.ret = "true"
          /\ AuthResponse(c, resp))
         => (/\ token_expires' =
                  (IF resp.exp_kind = "number"
                      /\ resp.expiration > current_time[c]
                   THEN resp.expiration
                   ELSE current_time[c] + 2592000)
             /\ token' = resp.token
             /\ last_refresh_time' = current_time[c])]_vars

C8_Witness ==
    /\ ev.kind = "auth_response" /\ ev.ret = "true"
    /\ token_expires # last_refresh_time + DEFAULT_EXPIRY
    /\ token = "tok1"

\* C9: every expiry a refresh stores is later than the clock at the moment
\* it is stored.
C9_ExpiryInFutureWhenAssigned ==
    [][token_expires' # token_expires => token_expires' > now']_vars

\* C10: the in-progress flag is set exactly while one call is between
\* marking the refresh and leaving it: every exit of the refresh clears it
\* and the calls that return at the threshold, in-flight or backoff check
\* leave it as it is.
C10_LockTracksRefresh ==
    /\ [](refresh_lock <=> Cardinality(AuthInFlight) = 1)
    /\ [][(ev'.kind = "call" /\ ev'.path \in {"fresh", "locked", "backoff"})
          => refresh_lock' = refresh_lock]_vars
    /\ [][ev'.kind = "auth_response" => ~refresh_lock']_vars

C10_Witness ==
    /\ ev.kind = "auth_response" /\ ev.path = "raise_request"
    /\ ~refresh_lock /\ AuthInFlight = {}

\* C11: an _refresh_token_if_needed call made right after a refresh that
\* returned True (the next step, at the same clock value) issues no
\* token-exchange request and leaves token, expiry and last refresh time
\* unchanged, also when the stored expiry is within the threshold.
C11_RefreshIdempotent ==
    [][(ev.kind = "auth_response" /\ ev.ret = "true" /\ ev'.kind = "call")
       => (/\ ev'.issued # "auth"
           /\ ev'.path \in {"fresh", "backoff"}
           /\ UNCHANGED <<token, token_expires, last_refresh_time,
                          refresh_lock>>)]_vars

C11_Witness ==
    /\ ev.kind = "call" /\ ev.path = "backoff" /\ ev.ret = "false"
    /\ token = "tok1" /\ last_refresh_time # 0
    /\ now - last_refresh_time <= HTTP_TIMEOUT
    /\ Remaining <= TOKEN_REFRESH_THRESHOLD

\* C12: async_get_tasks answered with HTTP 401 sets the last refresh time
\* to 0 and returns the empty result; answered with another non-200 status
\* or a non-200 application code it returns the empty result and leaves
\* the last refresh time unchanged.  Either way the call ends there: it
\* issues no second task request and no token exchange.
TaskRejected(resp) ==
    /\ resp.kind = "http"
    /\ \/ resp.status \notin {200, 401}
       \/ resp.status = 200 /\ resp.body = "json" /\ resp.code # 200

C12_ListTasksNoInlineRetry ==
    [][\A c \in TaskInFlight : \A resp \in TaskResponses :
         (ev'.kind = "task_response" /\ TaskResponse(c, resp)
          /\ op[c] = "listTasks")
         => (/\ ev'.issued = "none"
             /\ pc'[c] = "idle"
             /\ AuthInFlight' = AuthInFlight
             /\ TaskInFlight' = TaskInFlight \ {c}
             /\ (resp.kind = "http" /\ resp.status = 401)
                => (last_refresh_time' = 0 /\ ev'.result = "empty")
             /\ TaskRejected(resp)
                => (/\ last_refresh_time' = last_refresh_time
                    /\ ev'.result = "empty"))]_vars

C12_Witness ==
    /\ ev.kind = "task_response" /\ ev.path = "return_401"
    /\ ev.result = "empty"
    /\ token = "tok1" /\ last_refresh_time = 0
    /\ pc["task_entity"] = "idle"

\* C13: async_get_tasks and async_run_task send their task request whatever
\* _refresh_token_if_needed returned: when it returned False (refresh in
\* flight, backoff, failed refresh) the call still issues exactly one task
\* request, and the token it holds is the one it held before.
TaskOps == {"listTasks", "runTask"}

C13_BestEffort ==
    [][/\ \A c \in Callers : \A o \in OpsOf(c) \cap TaskOps :
            (ev'.kind = "call" /\ ev'.issued # "auth" /\ Call(c, o))
            => (/\ ev'.ret \in {"true", "false"}
                /\ ev'.issued = "task"
                /\ TaskInFlight' = TaskInFlight \cup {c}
                /\ c \notin TaskInFlight
                /\ token' = token)
       /\ \A c \in AuthInFlight :
            (ev'.kind = "auth_response" /\ op[c] \in TaskOps
             /\ pc'[c] # "auth_wait")
            => (/\ ev'.ret \in {"true", "false"}
                /\ ev'.issued = "task"
                /\ TaskInFlight' = TaskInFlight \cup {c}
                /\ c \notin TaskInFlight
                /\ ev'.ret = "false" => token' = token)]_vars

C13_Witness ==
    /\ ev.kind = "auth_response" /\ ev.ret = "false" /\ ev.issued = "task"
    /\ pc["task_entity"] = "task_wait"
    /\ token = InitialToken

\* C14: once a 401 has reset the last refresh time to 0, the backoff guard
\* does not reject the next _refresh_token_if_needed call: with 24 h or
\* less remaining and no refresh in flight the call issues a token
\* exchange, also when a refresh succeeded less than 5 minutes earlier.
C14_ResetBypassesBackoff ==
    /\ [][(/\ ev'.kind = "call"
           /\ last_refresh_time = 0
           /\ Remaining <= TOKEN_REFRESH_THRESHOLD
           /\ AuthInFlight = {})
          => (ev'.path = "refresh" /\ ev'.issued = "auth")]_vars
    /\ [][(/\ ev.kind = "task_response" /\ ev.path = "return_401"
           /\ ev'.kind = "call"
           /\ Remaining <= TOKEN_REFRESH_THRESHOLD
           /\ AuthInFlight = {})
          => (ev'.path = "refresh" /\ ev'.issued = "auth")]_vars

\* A second token exchange is issued less than 5 minutes after the start,
\* the first having succeeded with an expiry within the threshold.
C14_Witness ==
    /\ ev.kind = "call" /\ ev.path = "refresh" /\ ev.issued = "auth"
    /\ token = "tok1" /\ last_refresh_time = 0
    /\ now - StartTime < MIN_REFRESH_INTERVAL
    /\ Remaining > 0

\* C15: get_token_info changes no client state and issues no request, and
\* it reports expires_in = expiry - now, is_valid = (remaining > 1 h) and
\* needs_refresh = (remaining <= 24 h), so that needs_refresh is false
\* exactly when _refresh_token_if_needed at the same clock value returns
\* True without a request.
C15_TokenInfoPureRead ==
    [][ev'.kind = "token_info"
       => (/\ ~ev'.raised
           /\ ev'.issued = "none"
           /\ UNCHANGED <<now, token, token_expires, refresh_lock,
                          last_refresh_time, session, pc, op>>
           /\ TokenInfo(token, token_expires, last_refresh_time,
                        now).expires_in = Remaining
           /\ ev'.result = (IF Remaining > 3600 THEN "valid" ELSE "invalid")
           /\ ev'.ret = (IF Remaining <= 86400 THEN "needs_refresh"
                         ELSE "no_refresh")
           /\ (ev'.ret = "no_refresh")
              <=> (Branch(token_expires, refresh_lock, last_refresh_time,
                          now) = "fresh"))]_vars

\* The part of C15 that holds: whenever get_token_info returns.
C15_WhenItReturns ==
    [][(ev'.kind = "token_info" /\ ~ev'.raised)
       => (/\ ev'.issued = "none"
           /\ UNCHANGED <<now, token, token_expires, refresh_lock,
                          last_refresh_time, session, pc, op>>
           /\ ev'.result = (IF Remaining > 3600 THEN "valid" ELSE "invalid")
           /\ ev'.ret = (IF Remaining <= 86400 THEN "needs_refresh"
                         ELSE "no_refresh")
           /\ (ev'.ret = "no_refresh")
              <=> (Branch(token_expires, refresh_lock, last_refresh_time,
                          now) = "fresh"))]_vars

\* C16: a client has at most one open session at any time: there is none
\* until a step issues the first request, that step creates it, every
\* request issued while it is open reuses it, and async_close closes it.
C16_OneSession ==
    /\ [](/\ open_sessions <= 1
          /\ open_sessions = (IF session = "open" THEN 1 ELSE 0))
    /\ [][session = "none"
          => (IF ev'.issued = "none" THEN session' = "none"
              ELSE session' = "open" /\ open_sessions' = 1)]_vars
    /\ [][(session = "open" /\ ev'.issued # "none")
          => (session' = "open" /\ open_sessions' = open_sessions)]_vars
    /\ [][ev'.kind = "close"
          => (session' # "open" /\ open_sessions' = 0)]_vars

C16_Witness ==
    /\ ev.kind = "close" /\ session = "closed" /\ open_sessions = 0
    /\ token = "tok1"
    /\ TaskInFlight # {}

\* C17: for a successful list response whose data is a list of tasks or an
\* object with a nested data list, the entities obtain exactly the tasks of
\* the response, each with its command and enabled = (isDisabled is 0),
\* and the tasks sensor and the select entity agree on which tasks are
\* enabled.
IsEnabled(task) == task.isDisabled = "0"

NumEnabled(l) == Cardinality({i \in 1..Len(l) : IsEnabled(l[i])})

ListShaped == tasks.shape \in {"list", "nested"}

C17_TaskCollection ==
    /\ [](ListShaped /\ sensor_attrs.built
          => (/\ sensor_attrs.total = Len(tasks.tasks)
              /\ sensor_attrs.commands =
                   [i \in 1..Len(tasks.tasks) |-> tasks.tasks[i].command]
              /\ sensor_attrs.enabled = NumEnabled(tasks.tasks)))
    /\ [](ListShaped /\ ev.kind = "select_added"
          => (/\ Len(options) = NumEnabled(tasks.tasks)
              /\ \A i \in 1..Len(tasks.tasks) :
                   IsEnabled(tasks.tasks[i])
                   <=> (\E k \in 1..Len(options) :
                          options[k] = ScriptName(tasks.tasks[i].command))
              /\ sensor_attrs.built
                 => sensor_attrs.enabled = Len(options)))

\* What holds of the code: the same, for the snapshots in which every task
\* carries isDisabled 0 or 1.
FlagsPresent ==
    \A i \in 1..Len(tasks.tasks) : tasks.tasks[i].isDisabled \in {"0", "1"}

C17_WhenFlagsPresent ==
    /\ [](ListShaped /\ FlagsPresent /\ sensor_attrs.built
          => (/\ sensor_attrs.total = Len(tasks.tasks)
              /\ sensor_attrs.enabled = NumEnabled(tasks.tasks)))
    /\ [](ListShaped /\ FlagsPresent /\ ev.kind = "select_added"
          => (/\ Len(options) = NumEnabled(tasks.tasks)
              /\ sensor_attrs.built
                 => sensor_attrs.enabled = Len(options)))

\* C18: the cached snapshot is replaced as a whole: whenever a poll of the
\* tasks sensor or of the select entity changes it, it becomes the complete
\* result of that poll's async_get_tasks, so it is always the initial
\* result or one result, never entries of two.
C18_SnapshotWholesale ==
    /\ [](tasks \in PollResults)
    /\ [][tasks' # tasks => tasks' = last_result']_vars
    /\ [][ev'.kind = "sensor_update" => tasks' = last_result']_vars
    /\ [][ev'.kind = "select_update"
          => tasks' = (IF Truthy(last_result') THEN last_result'
                       ELSE tasks)]_vars

\* The select entity has replaced a snapshot the tasks sensor stored, whose
\* tasks differ in number.
C18_Witness ==
    /\ ev.kind = "select_update" /\ Truthy(last_result)
    /\ tasks = last_result
    /\ sensor_attrs.total > Len(ExtractTasksList(tasks))
    /\ Len(ExtractTasksList(tasks)) > 0

\* C20: every call eventually returns, whether the remote answers, fails
\* or never answers (the request is abandoned at the timeout), and a
\* refresh that was started eventually ends with the in-progress flag
\* cleared.
C20_CallsReturn ==
    /\ \A c \in Callers : (pc[c] # "idle") ~> (pc[c] = "idle")
    /\ refresh_lock ~> ~refresh_lock
    /\ [][\A c \in Callers :
            (pc[c] = "auth_wait" /\ pc'[c] # "auth_wait")
            => ~refresh_lock']_vars

\* A token exchange was abandoned 10 s after it was issued, and the call
\* has returned with the flag cleared.
C20_Witness ==
    /\ ev.kind = "auth_response" /\ ev.path = "raise_request"
    /\ ev.ret = "false"
    /\ last_attempt # 0 /\ now - last_attempt = HTTP_TIMEOUT
    /\ ~refresh_lock
    /\ \A c \in Callers : pc[c] = "idle"

\* C19: if from some point on the remote answers every token exchange
\* successfully, with an expiration more than 24 h ahead or with none, and
\* polls keep occurring outside the backoff interval, then a token that
\* needs a refresh is eventually refreshed (a refresh returns True) so that
\* more than 24 h remain: contention and failed attempts only defer it.
GoodAnswer(resp) ==
    /\ resp.kind = "http" /\ resp.status = 200
    /\ resp.body = "json" /\ resp.code = 200
    /\ resp.token # ""
    /\ \/ resp.exp_kind = "absent"
       \/ /\ resp.exp_kind = "number"
          /\ resp.expiration > now + TOKEN_REFRESH_THRESHOLD

AnsweredWell ==
    ev'.kind = "auth_response"
    => \E c \in AuthInFlight : \E resp \in AuthResponses(now) :
         GoodAnswer(resp) /\ AuthResponse(c, resp)

Refreshed ==
    /\ ev.kind = "auth_response" /\ ev.ret = "true"
    /\ Remaining > TOKEN_REFRESH_THRESHOLD

C19_EventuallyRefreshed ==
    (/\ <>[][AnsweredWell]_vars
     /\ []<>(~TooRecent(now, last_refresh_time)))
    => ((Remaining <= TOKEN_REFRESH_THRESHOLD) ~> Refreshed)

\* What holds of the code: the same, as long as no expiration beyond the
\* range of time.localtime has been stored.
C19_WhenExpirationInRange ==
    (/\ [](~LocaltimeRaises(token_expires))
     /\ <>[][AnsweredWell]_vars
     /\ []<>(~TooRecent(now, last_refresh_time)))
    => ((Remaining <= TOKEN_REFRESH_THRESHOLD) ~> Refreshed)


\* C21: after async_get_tasks or async_run_task has been answered with
\* HTTP 401 for the token the client holds, the next
\* _refresh_token_if_needed call with no refresh in flight issues a token
\* exchange, whatever the cached expiry is.
HeldTokenRejected == rejected # "" /\ rejected = token

C21_RejectedTokenRenewed ==
    [][(/\ HeldTokenRejected
        /\ AuthInFlight = {}
        /\ ev'.kind = "call")
       => (ev'.path = "refresh" /\ ev'.issued = "auth")]_vars

\* The same with 24 h or less remaining on the cached expiry, where the
\* reset of the last refresh time is enough.
C21_WhenExpiryNear ==
    [][(/\ HeldTokenRejected
        /\ AuthInFlight = {}
        /\ Remaining <= TOKEN_REFRESH_THRESHOLD
        /\ ev'.kind = "call")
       => (ev'.path = "refresh" /\ ev'.issued = "auth")]_vars


\* C22: a refresh attempt that fails (HTTP status other than 200,
\* application code other than 200, missing token, timeout, transport
\* exception) leaves the last refresh time unchanged.  The last refresh
\* time is written only by a refresh that succeeds, which stores the clock
\* value it read on entry, and by the reset to 0 on a 401.
RefreshFailed(resp) ==
    \/ resp.kind \in {"timeout", "neterror"}
    \/ RefreshRejected(resp)

C22_AttemptTimeWrites ==
    [][/\ \A c \in AuthInFlight : \A resp \in AuthResponses(now) :
            (AuthResponse(c, resp) /\ RefreshFailed(resp))
            => last_refresh_time' = last_refresh_time
       /\ \A c \in AuthInFlight :
            (ev'.kind = "auth_response" /\ pc'[c] # "auth_wait"
             /\ ev'.ret # "true")
            => last_refresh_time' = last_refresh_time
       /\ last_refresh_time' # last_refresh_time
          => \/ /\ ev'.kind = "auth_response" /\ ev'.ret = "true"
                /\ \E c \in AuthInFlight :
                     /\ pc'[c] # "auth_wait"
                     /\ last_refresh_time' = current_time[c]
             \/ /\ ev'.kind = "task_response" /\ ev'.path = "return_401"
                /\ last_refresh_time' = 0]_vars

\* A refresh has failed after an earlier one succeeded, and the last
\* refresh time is still that of the success.
C22_Witness ==
    /\ ev.kind = "auth_response" /\ ev.ret = "false"
    /\ last_refresh_time = StartTime
    /\ last_attempt > last_refresh_time


\* C23: the task request of async_get_tasks / async_run_task carries the
\* token the client holds at the moment the request is issued, after the
\* call's _refresh_token_if_needed has returned: when that refresh
\* succeeded the header carries the token just obtained, not the one held
\* before it.
C23_RequestCarriesHeldToken ==
    [][\A c \in Callers :
         (pc[c] # "task_wait" /\ pc'[c] = "task_wait")
         => (/\ ev'.issued = "task"
             /\ request_token'[c] = token'
             /\ \A resp \in AuthResponses(now) :
                  (AuthResponse(c, resp) /\ ev'.ret = "true")
                  => (/\ request_token'[c] = resp.token
                      /\ token # resp.token
                         => request_token'[c] # token))]_vars

\* The first refresh has succeeded inside a task call, whose request is
\* now pending with the new token.
C23_Witness ==
    /\ ev.kind = "auth_response" /\ ev.ret = "true" /\ ev.issued = "task"
    /\ pc["task_entity"] = "task_wait"
    /\ request_token["task_entity"] = "tok1"
    /\ last_refresh_time = StartTime


\* C24: a client constructed without a stored expiry starts with 24 h or
\* less remaining, no refresh in progress and last refresh time 0, so the
\* first _refresh_token_if_needed call issues a token exchange: it neither
\* short-circuits nor is stopped by the backoff guard.
C24_FirstCallRefreshes ==
    /\ [](~called => (/\ token_expires = 0
                      /\ Remaining <= TOKEN_REFRESH_THRESHOLD
                      /\ ~refresh_lock
                      /\ last_refresh_time = 0))
    /\ [][(~called /\ called')
          => (/\ ev'.kind = "call"
              /\ ev'.path = "refresh"
              /\ ev'.issued = "auth"
              /\ AuthInFlight' # {})]_vars

\* The listTasks call of the setup is the first call and its token
\* exchange is pending.
C24_Witness ==
    /\ called /\ ev.kind = "call" /\ ev.issued = "auth"
    /\ op["task_entity"] = "listTasks" /\ pc["task_entity"] = "auth_wait"
    /\ pc["token_sensor"] = "idle"
    /\ ticks = 0 /\ last_attempt = StartTime /\ last_update = 0
    /\ token = InitialToken /\ token_expires = 0


\* C25: once async_unload_entry has returned the client holds no open
\* session, whatever entity calls ran during or after async_close.
C25_NoSessionAfterTeardown ==
    unloaded => (session # "open" /\ open_sessions = 0)

\* The same while no request has been issued since async_close.
C25_WhenNoRequestSinceClose ==
    /\ [][ev'.kind = "close"
          => (session' # "open" /\ open_sessions' = 0)]_vars
    /\ [][(torn_down /\ session # "open" /\ ev'.issued = "none")
          => (session' # "open" /\ open_sessions' = 0)]_vars


\* C26: after any sequence of async_update and async_select_option on the
\* select entity the current option is None or one of the options, and
\* every option has a task-mapping entry.  Selecting an option that is
\* offered calls async_run_task exactly once, with the id of a task of
\* that script name that is enabled in the latest non-empty snapshot;
\* selecting one that is not offered raises and calls nothing.
EnabledIdsOf(o, l) ==
    {l[k].id : k \in {j \in 1..Len(l) :
                        IsEnabled(l[j]) /\ ScriptName(l[j].command) = o}}

C26_SelectConsistent ==
    /\ [](current_option = "" \/ Listed(current_option, options))
    /\ [](\A k \in 1..Len(options) : options[k] \in DOMAIN task_mapping)
    /\ [][\A o \in OptionNames :
            (ev'.kind = "select_option" /\ SelectOption(o))
            => IF Listed(o, options)
               THEN /\ ev'.issued = "runTask" /\ ~ev'.raised
                    /\ sel.pc = "idle" /\ sel'.pc = "wait"
                    /\ sel'.option = o
                    /\ sel'.task_id \in EnabledIdsOf(o, ExtractTasksList(tasks))
                    /\ current_option' = o
               ELSE /\ ev'.raised /\ ev'.issued = "none"
                    /\ UNCHANGED <<current_option, selected_task, sel>>]_vars
    /\ [][ev'.kind = "select_done"
          => (/\ ev'.issued = "none"
              /\ sel.pc = "wait" /\ sel'.pc = "idle"
              /\ selected_task'.task_id = sel.task_id)]_vars

\* bar.js is selected and run with the id of its enabled task, the latest
\* update having failed and an earlier one having removed foo.js.
C26_Witness ==
    /\ ev.kind = "select_option" /\ ev.issued = "runTask"
    /\ sel.pc = "wait" /\ sel.option = "bar.js" /\ sel.task_id = "3"
    /\ current_option = "bar.js"
    /\ last_result = EmptyBody /\ Len(options) = 1
    /\ selected_task.set /\ selected_task.option = "foo.js"


\* C27: in every reachable state the selected_task record is
\* self-consistent: its run_status.task_name equals its option and the
\* run status describes a run of its task_id, also when a button press
\* and a select-option change overlap across the await of async_run_task.
SelfConsistent(st) ==
    st.set => (st.task_name = st.option /\ st.run_id = st.task_id)

C27_SelectedTaskConsistent == SelfConsistent(selected_task)

\* The same for a press during whose await the record was not replaced,
\* and for every record async_select_option stores.
C27_WhenNotOverlapped ==
    /\ [][ev'.kind = "select_done" => SelfConsistent(selected_task')]_vars
    /\ [][(/\ ev'.kind = "press_done"
           /\ SelfConsistent(selected_task)
           /\ selected_task.option = btn.option
           /\ selected_task.task_id = btn.task_id)
          => SelfConsistent(selected_task')]_vars


\* C28: a press less than 2 seconds after the previous press that was not
\* ignored as too frequent, or made while no selected task is recorded,
\* calls no async_run_task and changes no shared state; every other press
\* calls async_run_task exactly once, with the recorded task id.
C28_PressGuard ==
    /\ [][ev'.kind = "press"
          => IF \/ now - last_press_time < PRESS_INTERVAL
                \/ ~selected_task.set
             THEN /\ ev'.issued = "none"
                  /\ btn' = btn /\ btn.pc = "idle"
                  /\ UNCHANGED <<selected_task, tasks, options,
                                 task_mapping, current_option>>
                  /\ UNCHANGED client_vars
             ELSE /\ ev'.issued = "runTask"
                  /\ btn.pc = "idle" /\ btn'.pc = "wait"
                  /\ btn'.task_id = selected_task.task_id
                  /\ last_press_time' = now
                  /\ UNCHANGED selected_task]_vars
    /\ [][ev'.kind = "press_done"
          => (ev'.issued = "none" /\ btn.pc = "wait" /\ btn'.pc = "idle")]_vars

\* A press one second after a press that ran the selected task is ignored.
C28_Witness ==
    /\ ev.kind = "press" /\ ev.path = "throttled"
    /\ selected_task.set /\ selected_task.status = "success"
    /\ selected_task.run_id = selected_task.task_id
    /\ last_press_time = StartTime
    /\ now = StartTime + 1

====
